---- MODULE Spec2Model ----
(***************************************************************************)
(* State-machine model of the rendy resource core:                         *)
(*   memory/src/allocator/dedicated.rs  DedicatedBlock, DedicatedAllocator *)
(*   command/src/pool.rs                OwningPool, FramePool, FrameBound  *)
(*   chain/src/chain/mod.rs             Chain                              *)
(*                                                                         *)
(* Option<T> is modelled as a set: None is {} and Some(x) is {x}.          *)
(* A panic ("fails loudly") ends the call with outcome "panic"; the        *)
(* object is left as the code left it at the point of the panic and the    *)
(* caller may go on using it (the unwinding is caught, as the spec's       *)
(* scenario B does).                                                       *)
(*                                                                         *)
(* Sizes and the used counter are u64 in the code.  The model's sizes are  *)
(* small and the number of live blocks is bounded, so every sum stays far  *)
(* below 2^64 and the additions are exact; the subtraction in free is      *)
(* guarded by an explicit underflow test.                                  *)
(***************************************************************************)
EXTENDS Integers, Sequences, FiniteSets, TLC

\* ---- bounds ----------------------------------------------------------
MaxBlocks == 2      \* live blocks of one allocator
MaxSize == 1        \* block sizes are 0..MaxSize
MaxOff == 2         \* range bounds passed to map are 0..MaxOff
MaxFrame == 2       \* frame indices are 1..MaxFrame
MaxBuffers == 2     \* command buffers an OwningPool may grow to
MaxLinks == 3       \* links of one Chain
UsageBits == 2      \* a Usage is a mask of UsageBits bits

Handles == 1..MaxBlocks
Sizes == 0..MaxSize
Offsets == 0..MaxOff
Aligns == {1, 2}
Frames == 1..MaxFrame
Usages == 0..(2^UsageBits - 1)

None == {}
Some(x) == {x}
Unwrap(o) == CHOOSE x \in o : TRUE

VARIABLES
    used,       \* DedicatedAllocator.used
    alive,      \* the allocator exists (constructed and not yet dropped)
    blocks,     \* the DedicatedBlocks produced and not yet freed, by memory handle
    devMaps,    \* device side: live host mappings per memory handle
    mcall,      \* the last memory call: operation, outcome, device calls, result
    watch,      \* observer: one allocation followed from its alloc to its free
    frame,      \* FramePool.frame : Option<FrameIndex>
    buffers,    \* FramePool.inner.buffers
    next,       \* FramePool.inner.next
    bound,      \* a FrameBound handle returned by bind is still borrowed
    pcall,      \* the last pool call
    pool,       \* FramePool.inner.inner : Pool (handle, capability, reset, family, relevant)
    credit,     \* observer: acquires still covered by the last reserve(n)
    links,      \* Chain.links
    ccall       \* the last chain call

memVars == <<used, alive, blocks, devMaps, mcall, watch>>
poolVars == <<frame, buffers, next, bound, pcall, pool, credit>>
chainVars == <<links, ccall>>
vars == <<used, alive, blocks, devMaps, mcall, watch, frame, buffers, next, bound, pcall, pool, credit,
          links, ccall>>

\* ======================================================================
\* Memory: device, mapping helpers
\* ======================================================================

\* Device::allocate hands out the lowest handle not in use.
DeviceAllocate(live) == CHOOSE h \in Handles \ live : \A g \in Handles \ live : h <= g

\* Device::map returns a non-null pointer to the first byte of the range.
PtrStride == MaxOff + 1
DeviceMap(h, start) == h * PtrStride + start

\* mapping::mapped_fitting_range(ptr, range, fitting) : Option<ptr>
mapped_fitting_range(ptr, rstart, rend, fstart, fend) ==
    IF fstart < rstart \/ fend > rend
        THEN None
        ELSE Some(ptr + (fstart - rstart))

\* MappedRange::new(memory, device, range): one Device::map call over exactly
\* the range; Err(MappingError) when the device rejects it.
MappedRange_new(h, start, end, devOk) ==
    [calls |-> << <<"map", h, start, end>> >>,
     result |-> IF devOk THEN Some([ptr |-> DeviceMap(h, start), start |-> start, end |-> end])
                         ELSE None]

\* DedicatedBlock::from_memory
from_memory(size) == [size |-> size, mapping |-> None]

\* ---- DedicatedBlock::map ---------------------------------------------
\* Mutant: the fitting test is skipped, every map goes to the device.
DedicatedBlock_map_always_remaps(b, h, start, end, devOk) ==
    LET unmapCalls == IF b.mapping # None THEN << <<"unmap", h>> >> ELSE <<>>
        m == MappedRange_new(h, start, end, devOk)
    IN  IF start > end
        THEN [block |-> b, outcome |-> "panic", calls |-> <<>>, ret |-> <<>>]
        ELSE IF m.result # None
             THEN [block |-> [b EXCEPT !.mapping = m.result], outcome |-> "ok",
                   calls |-> unmapCalls \o m.calls,
                   ret |-> <<Unwrap(m.result).ptr, start, end>>]
             ELSE [block |-> [b EXCEPT !.mapping = None], outcome |-> "MappingError",
                   calls |-> unmapCalls \o m.calls, ret |-> <<>>]

\* Mutant: the old mapping is not released before the new one is made.
DedicatedBlock_map_no_unmap(b, h, start, end, devOk) ==
    LET fit == IF b.mapping = None THEN None
               ELSE LET mp == Unwrap(b.mapping)
                    IN mapped_fitting_range(mp.ptr, mp.start, mp.end, start, end)
        m == MappedRange_new(h, start, end, devOk)
    IN  IF start > end
        THEN [block |-> b, outcome |-> "panic", calls |-> <<>>, ret |-> <<>>]
        ELSE IF fit # None
        THEN [block |-> b, outcome |-> "ok", calls |-> <<>>,
              ret |-> <<Unwrap(fit), start, end>>]
        ELSE IF m.result # None
             THEN [block |-> [b EXCEPT !.mapping = m.result], outcome |-> "ok",
                   calls |-> m.calls,
                   ret |-> <<Unwrap(m.result).ptr, start, end>>]
             ELSE [block |-> [b EXCEPT !.mapping = None], outcome |-> "MappingError",
                   calls |-> m.calls, ret |-> <<>>]

DedicatedBlock_map(b, h, start, end, devOk) ==
    LET fit == IF b.mapping = None THEN None
               ELSE LET mp == Unwrap(b.mapping)
                    IN mapped_fitting_range(mp.ptr, mp.start, mp.end, start, end)
        \* self.mapping.take().is_some() => device.unmap
        unmapCalls == IF b.mapping # None THEN << <<"unmap", h>> >> ELSE <<>>
        m == MappedRange_new(h, start, end, devOk)
    IN  IF start > end
        THEN \* assert!(range.start <= range.end)
             [block |-> b, outcome |-> "panic", calls |-> <<>>, ret |-> <<>>]
        ELSE IF fit # None
        THEN [block |-> b, outcome |-> "ok", calls |-> <<>>,
              ret |-> <<Unwrap(fit), start, end>>]
        ELSE IF m.result # None
             THEN [block |-> [b EXCEPT !.mapping = m.result], outcome |-> "ok",
                   calls |-> unmapCalls \o m.calls,
                   ret |-> <<Unwrap(m.result).ptr, start, end>>]
             ELSE \* `?` returns after take() has emptied self.mapping
                  [block |-> [b EXCEPT !.mapping = None], outcome |-> "MappingError",
                   calls |-> unmapCalls \o m.calls, ret |-> <<>>]

\* ---- DedicatedBlock::unmap -------------------------------------------
\* Mutant: the mapping is tested with is_some() but not taken.
DedicatedBlock_unmap_keeps_mapping(b, h) ==
    IF b.mapping # None
        THEN [block |-> b, calls |-> << <<"unmap", h>> >>]
        ELSE [block |-> b, calls |-> <<>>]

DedicatedBlock_unmap(b, h) ==
    IF b.mapping # None
        THEN [block |-> [b EXCEPT !.mapping = None], calls |-> << <<"unmap", h>> >>]
        ELSE [block |-> b, calls |-> <<>>]

\* The device's count of live mappings of one memory object after a
\* sequence of device calls.
RECURSIVE DeviceAfter(_, _, _)
DeviceAfter(n, calls, ok) ==
    IF calls = <<>> THEN n
    ELSE LET c == Head(calls)
         IN DeviceAfter(IF c[1] = "unmap" THEN n - 1
                        ELSE IF c[1] = "map" /\ ok THEN n + 1
                        ELSE IF c[1] = "free" THEN 0
                        ELSE n,
                        Tail(calls), ok)

\* ======================================================================
\* Memory: DedicatedAllocator
\* ======================================================================

\* DedicatedAllocator::new
DedicatedAllocator_new == 0

\* ---- DedicatedAllocator::alloc ---------------------------------------
\* Mutant: the counter is bumped before the device is asked.
DedicatedAllocator_alloc_counts_first(u, size, align, devOk) ==
    IF devOk
        THEN [used |-> u + size, outcome |-> "ok", calls |-> << <<"allocate", size>> >>,
              ret |-> <<size>>, block |-> Some(from_memory(size))]
        ELSE [used |-> u + size, outcome |-> "MemoryError", calls |-> << <<"allocate", size>> >>,
              ret |-> <<>>, block |-> None]

\* Mutant: the counter is bumped by one byte too many.
DedicatedAllocator_alloc_off_by_one(u, size, align, devOk) ==
    IF devOk
        THEN [used |-> u + size + 1, outcome |-> "ok", calls |-> << <<"allocate", size>> >>,
              ret |-> <<size>>, block |-> Some(from_memory(size))]
        ELSE [used |-> u, outcome |-> "MemoryError", calls |-> << <<"allocate", size>> >>,
              ret |-> <<>>, block |-> None]

\* Mutant: the size is rounded up to the alignment.
DedicatedAllocator_alloc_aligned(u, size, align, devOk) ==
    LET rounded == ((size + align - 1) \div align) * align
    IN  IF devOk
        THEN [used |-> u + rounded, outcome |-> "ok", calls |-> << <<"allocate", rounded>> >>,
              ret |-> <<rounded>>, block |-> Some(from_memory(rounded))]
        ELSE [used |-> u, outcome |-> "MemoryError", calls |-> << <<"allocate", rounded>> >>,
              ret |-> <<>>, block |-> None]

DedicatedAllocator_alloc(u, size, align, devOk) ==
    IF devOk
        THEN [used |-> u + size, outcome |-> "ok", calls |-> << <<"allocate", size>> >>,
              ret |-> <<size>>, block |-> Some(from_memory(size))]
        ELSE \* device.allocate(..)? returns before self.used += size
             [used |-> u, outcome |-> "MemoryError", calls |-> << <<"allocate", size>> >>,
              ret |-> <<>>, block |-> None]

\* ---- DedicatedAllocator::free ----------------------------------------
\* Mutant: the block is handed to the device without block.unmap(device).
DedicatedAllocator_free_no_unmap(u, b, h) ==
    [used |-> u - b.size,
     underflow |-> b.size > u,
     calls |-> << <<"free", h>> >>,
     ret |-> <<b.size>>]

DedicatedAllocator_free(u, b, h) ==
    LET um == DedicatedBlock_unmap(b, h)
        size == um.block.size
    IN  [used |-> u - size,
         underflow |-> size > u,
         calls |-> um.calls \o << <<"free", h>> >>,
         ret |-> <<size>>]

\* ---- Drop for DedicatedAllocator -------------------------------------
\* Mutant: the leak check is missing.
DedicatedAllocator_drop_unchecked(u) == "ok"

DedicatedAllocator_drop(u) == IF u = 0 THEN "ok" ELSE "panic"


\* ======================================================================
\* Command pools: OwningPool, FramePool, FrameBound
\* ======================================================================

\* OwningPool::acquire_buffer: the next buffer of the ring, growing the
\* sequence by one when the ring is exhausted; the cursor advances.  The
\* buffer handed out through a FrameBound is scoped to the bound frame f.
OwningPool_acquire_buffer(bufs, nxt, f) ==
    LET grown == IF nxt >= Len(bufs) THEN Append(bufs, [frame |-> None]) ELSE bufs
    IN  [buffers |-> [grown EXCEPT ![nxt + 1] = [frame |-> Some(f)]],
         next |-> nxt + 1,
         ret |-> nxt + 1,
         allocated |-> Len(grown) - Len(bufs)]

\* OwningPool::reserve(count): new buffers are allocated from the native pool
\* until `count` buffers are available for reuse (held and not handed out
\* since the last reset); nothing is released.
\* Mutant: the buffers already handed out are counted as available.
OwningPool_reserve_counts_held(bufs, nxt, count) ==
    LET add == IF count > Len(bufs) THEN count - Len(bufs) ELSE 0
    IN  [buffers |-> bufs \o [i \in 1..add |-> [frame |-> None]],
         next |-> nxt,
         allocated |-> add]

OwningPool_reserve(bufs, nxt, count) ==
    LET avail == Len(bufs) - nxt
        add == IF count > avail THEN count - avail ELSE 0
    IN  [buffers |-> bufs \o [i \in 1..add |-> [frame |-> None]],
         next |-> nxt,
         allocated |-> add]

\* OwningPool::reset: every buffer is recycled at once, the ring restarts.
OwningPool_reset(bufs) ==
    [buffers |-> [i \in DOMAIN bufs |-> [frame |-> None]], next |-> 0]

\* ---- cast_capability -------------------------------------------------
\* CapabilityFlags: the runtime flags of a pool (1 transfer, 2 compute,
\* 3 graphics).  A capability level C is one of 1..3, or 4 (general:
\* compute and graphics).
CapFlags == {1, 2, 3}
Levels == {1, 2, 3, 4}
Required(c) == IF c = 4 THEN {2, 3} ELSE {c}

\* A Pool's capability: run-time flags (level 0) or a static level.
Flags(fl) == [flags |-> fl, level |-> 0]

\* Capability::from_flags : Option<C>
from_flags(c, cap) ==
    IF cap.level = 0 /\ Required(c) \subseteq cap.flags
        THEN Some([flags |-> {}, level |-> c])
        ELSE None

\* Pool::cast_capability
Pool_cast_capability(p, c) ==
    LET capability == from_flags(c, p.capability)
    IN  IF capability # None
        THEN [ok |-> TRUE,
              pool |-> [inner |-> p.inner, capability |-> Unwrap(capability),
                        reset |-> p.reset, family |-> p.family, relevant |-> p.relevant]]
        ELSE [ok |-> FALSE, pool |-> p]

\* OwningPool::cast_capability
\* Mutant: the Err branch rebuilds the pool with the cursor at 0.
OwningPool_cast_capability_resets_cursor(o, c) ==
    LET r == Pool_cast_capability(o.inner, c)
    IN  IF r.ok
        THEN [ok |-> TRUE, pool |-> [inner |-> r.pool, buffers |-> o.buffers, next |-> o.next]]
        ELSE [ok |-> FALSE, pool |-> [inner |-> r.pool, buffers |-> o.buffers, next |-> 0]]

\* Mutant: the Ok branch starts the retyped pool with no buffers.
OwningPool_cast_capability_drops_buffers(o, c) ==
    LET r == Pool_cast_capability(o.inner, c)
    IN  IF r.ok
        THEN [ok |-> TRUE, pool |-> [inner |-> r.pool, buffers |-> <<>>, next |-> o.next]]
        ELSE [ok |-> FALSE, pool |-> [inner |-> r.pool, buffers |-> o.buffers, next |-> o.next]]

OwningPool_cast_capability(o, c) ==
    LET r == Pool_cast_capability(o.inner, c)
    IN  IF r.ok
        THEN [ok |-> TRUE, pool |-> [inner |-> r.pool, buffers |-> o.buffers, next |-> o.next]]
        ELSE [ok |-> FALSE, pool |-> [inner |-> r.pool, buffers |-> o.buffers, next |-> o.next]]

\* FramePool::cast_capability
FramePool_cast_capability(fp, c) ==
    LET r == OwningPool_cast_capability(fp.inner, c)
    IN  IF r.ok
        THEN [ok |-> TRUE, pool |-> [inner |-> r.pool, frame |-> fp.frame]]
        ELSE [ok |-> FALSE, pool |-> [inner |-> r.pool, frame |-> fp.frame]]

\* ---- FramePool::bind -------------------------------------------------
\* Mutant: the "still bound" assertion is missing.
FramePool_bind_unchecked(fr, f) == [frame |-> Some(f), outcome |-> "ok"]

FramePool_bind(fr, f) ==
    IF fr = None
        THEN [frame |-> Some(f), outcome |-> "ok"]
        ELSE \* assert!(self.frame.is_none()) fails before the assignment
             [frame |-> fr, outcome |-> "panic"]

\* ---- FramePool::reset ------------------------------------------------
\* Mutant: any token is accepted while the pool is bound.
FramePool_reset_any_token(fr, tok) ==
    [frame |-> None, outcome |-> IF fr # None THEN "ok" ELSE "panic"]

\* Mutant: the binding is read but not taken.
FramePool_reset_keeps_binding(fr, tok) ==
    [frame |-> fr, outcome |-> IF fr = Some(tok) THEN "ok" ELSE "panic"]

FramePool_reset(fr, tok) ==
    \* self.frame.take() runs before the comparison: the binding is gone
    \* whether or not the assertion holds
    [frame |-> None, outcome |-> IF fr = Some(tok) THEN "ok" ELSE "panic"]

\* ======================================================================
\* Resource access chain
\* ======================================================================

\* Resource::no_usage
no_usage == 0

\* BitOr::bitor on a Usage mask, bit by bit.
RECURSIVE BitOr(_, _)
BitOr(a, b) ==
    IF a = 0 /\ b = 0 THEN 0
    ELSE (IF a % 2 = 1 \/ b % 2 = 1 THEN 1 ELSE 0) + 2 * BitOr(a \div 2, b \div 2)

\* Link::usage
Link_usage(link) == link.usage

\* Chain::new
Chain_new == <<>>

\* Chain::last_link_mut : Option<&mut Link>, the handle being the position
\* of the link it refers to.
Chain_last_link_mut(ls) == IF ls = <<>> THEN None ELSE Some(Len(ls))

\* ---- Chain::add_link ------------------------------------------------
\* Mutant: the link is inserted at the head.
Chain_add_link_at_front(ls, link) ==
    [links |-> <<link>> \o ls, handle |-> Some(Len(ls) + 1)]

Chain_add_link(ls, link) ==
    LET pushed == Append(ls, link)
    IN  [links |-> pushed, handle |-> Chain_last_link_mut(pushed)]

\* ---- Chain::usage ---------------------------------------------------
\* links.iter().map(Link::usage).fold(no_usage, bitor), from link i on.
RECURSIVE UsageFold(_, _, _)
UsageFold(ls, acc, i) ==
    IF i > Len(ls) THEN acc
    ELSE UsageFold(ls, BitOr(acc, Link_usage(ls[i])), i + 1)

\* Mutant: the fold stops before the last link.
Chain_usage_skips_last(ls) ==
    IF ls = <<>> THEN no_usage ELSE UsageFold(SubSeq(ls, 1, Len(ls) - 1), no_usage, 1)

Chain_usage(ls) == UsageFold(ls, no_usage, 1)

\* A further access merged into a link through its mutable handle.
Link_merge(link, u) == [link EXCEPT !.usage = BitOr(@, u)]

\* ======================================================================
\* Actions
\* ======================================================================
CCall(op, arg, handle, usage) ==
    [op |-> op, arg |-> arg, handle |-> handle, usage |-> usage]

ChainNew ==
    /\ links' = Chain_new
    /\ ccall' = CCall("new", 0, None, 0)
    /\ UNCHANGED <<memVars, poolVars>>

AddLink(u) ==
    /\ Len(links) < MaxLinks
    /\ LET r == Chain_add_link(links, [usage |-> u])
       IN /\ links' = r.links
          /\ ccall' = CCall("add_link", u, r.handle, 0)
    /\ UNCHANGED <<memVars, poolVars>>

LastLinkMut ==
    /\ ccall' = CCall("last_link_mut", 0, Chain_last_link_mut(links), 0)
    /\ UNCHANGED links
    /\ UNCHANGED <<memVars, poolVars>>

\* The caller merges an access into the tail link through the handle
\* last_link_mut gave it.
MergeLast(u) ==
    /\ Chain_last_link_mut(links) # None
    /\ LET h == Unwrap(Chain_last_link_mut(links))
       IN /\ links' = [links EXCEPT ![h] = Link_merge(@, u)]
          /\ ccall' = CCall("merge", u, Some(h), 0)
    /\ UNCHANGED <<memVars, poolVars>>

Usage ==
    /\ ccall' = CCall("usage", 0, None, Chain_usage(links))
    /\ UNCHANGED links
    /\ UNCHANGED <<memVars, poolVars>>

Live == DOMAIN blocks

MCall(op, h, arg, outcome, calls, ret) ==
    [op |-> op, h |-> h, arg |-> arg, outcome |-> outcome, calls |-> calls, ret |-> ret]

NoWatch == [state |-> "none", h |-> 0, usedBefore |-> 0, net |-> 0]

\* The observer after an alloc of `size` that produced handle h (or none):
\* it may start following the new block; otherwise it adds the size to the
\* net change seen since the followed block was allocated.
WatchAfterAlloc(w, h, size, u, follow) ==
    IF h # 0 /\ follow /\ w.state # "live"
        THEN [state |-> "live", h |-> h, usedBefore |-> u, net |-> 0]
    ELSE IF w.state = "live" /\ h # 0 THEN [w EXCEPT !.net = @ + size]
    ELSE IF w.state = "freed" THEN NoWatch
    ELSE w

WatchAfterFree(w, h, size) ==
    IF w.state = "live" /\ w.h = h THEN [w EXCEPT !.state = "freed"]
    ELSE IF w.state = "live" THEN [w EXCEPT !.net = @ - size]
    ELSE NoWatch

New ==
    /\ ~alive
    /\ alive' = TRUE
    /\ used' = DedicatedAllocator_new
    /\ blocks' = << >>
    /\ devMaps' = [h \in Handles |-> 0]
    /\ mcall' = MCall("new", 0, <<>>, "ok", <<>>, <<>>)
    /\ watch' = NoWatch
    /\ UNCHANGED <<poolVars, chainVars>>

Alloc(size, align, devOk, follow) ==
    /\ alive
    /\ devOk => Cardinality(Live) < MaxBlocks
    /\ LET r == DedicatedAllocator_alloc(used, size, align, devOk)
           h == IF devOk THEN DeviceAllocate(Live) ELSE 0
       IN /\ used' = r.used
          /\ blocks' = IF r.block # None
                         THEN [x \in Live \cup {h} |->
                                 IF x = h THEN Unwrap(r.block) ELSE blocks[x]]
                         ELSE blocks
          /\ mcall' = MCall("alloc", h, <<size, align>>, r.outcome, r.calls, r.ret)
          /\ watch' = WatchAfterAlloc(watch, h, size, used, follow)
    /\ UNCHANGED <<alive, devMaps>>
    /\ UNCHANGED <<poolVars, chainVars>>

Free(h) ==
    /\ alive
    /\ h \in Live
    /\ LET r == DedicatedAllocator_free(used, blocks[h], h)
       IN /\ used' = r.used
          /\ blocks' = [x \in Live \ {h} |-> blocks[x]]
          /\ devMaps' = [devMaps EXCEPT ![h] = DeviceAfter(@, r.calls, TRUE)]
          /\ mcall' = MCall("free", h, <<>>, IF r.underflow THEN "underflow" ELSE "ok",
                            r.calls, r.ret)
          /\ watch' = WatchAfterFree(watch, h, blocks[h].size)
    /\ UNCHANGED alive
    /\ UNCHANGED <<poolVars, chainVars>>

Map(h, start, end, devOk) ==
    /\ h \in Live
    /\ LET r == DedicatedBlock_map(blocks[h], h, start, end, devOk)
       IN /\ blocks' = [blocks EXCEPT ![h] = r.block]
          /\ devMaps' = [devMaps EXCEPT ![h] = DeviceAfter(@, r.calls, devOk)]
          /\ mcall' = MCall("map", h, <<start, end>>, r.outcome, r.calls, r.ret)
    /\ UNCHANGED <<used, alive, watch>>
    /\ UNCHANGED <<poolVars, chainVars>>

Unmap(h) ==
    /\ h \in Live
    /\ LET r == DedicatedBlock_unmap(blocks[h], h)
       IN /\ blocks' = [blocks EXCEPT ![h] = r.block]
          /\ devMaps' = [devMaps EXCEPT ![h] = DeviceAfter(@, r.calls, TRUE)]
          /\ mcall' = MCall("unmap", h, <<>>, "ok", r.calls, <<>>)
    /\ UNCHANGED <<used, alive, watch>>
    /\ UNCHANGED <<poolVars, chainVars>>

Drop ==
    /\ alive
    /\ alive' = FALSE
    /\ mcall' = MCall("drop", 0, <<>>, DedicatedAllocator_drop(used), <<>>, <<>>)
    /\ UNCHANGED <<used, blocks, devMaps, watch>>
    /\ UNCHANGED <<poolVars, chainVars>>

PCall(op, arg, outcome, poolReset, allocated) ==
    [op |-> op, arg |-> arg, outcome |-> outcome, poolReset |-> poolReset,
     allocated |-> allocated]

NoCredit == [n |-> 0, left |-> 0]

\* The FramePool value made of the state's fields.
ThisFramePool ==
    [inner |-> [inner |-> pool, buffers |-> buffers, next |-> next], frame |-> frame]

Bind(f) ==
    /\ ~bound
    /\ LET r == FramePool_bind(frame, f)
       IN /\ frame' = r.frame
          /\ bound' = (r.outcome = "ok")
          /\ pcall' = PCall("bind", f, r.outcome, FALSE, 0)
    /\ UNCHANGED <<buffers, next, pool, credit>>
    /\ UNCHANGED <<memVars, chainVars>>

Acquire ==
    /\ bound
    /\ next < Len(buffers) \/ Len(buffers) < MaxBuffers
    /\ LET r == OwningPool_acquire_buffer(buffers, next, Unwrap(frame))
       IN /\ buffers' = r.buffers
          /\ next' = r.next
          /\ pcall' = PCall("acquire_buffer", r.ret, "ok", FALSE, r.allocated)
    /\ credit' = [credit EXCEPT !.left = IF @ > 0 THEN @ - 1 ELSE 0]
    /\ UNCHANGED <<frame, bound, pool>>
    /\ UNCHANGED <<memVars, chainVars>>

Release ==
    /\ bound
    /\ bound' = FALSE
    /\ pcall' = PCall("release", 0, "ok", FALSE, 0)
    /\ UNCHANGED <<frame, buffers, next, pool, credit>>
    /\ UNCHANGED <<memVars, chainVars>>

Reset(tok) ==
    /\ ~bound
    /\ LET r == FramePool_reset(frame, tok)
           o == OwningPool_reset(buffers)
       IN /\ frame' = r.frame
          /\ buffers' = IF r.outcome = "ok" THEN o.buffers ELSE buffers
          /\ next' = IF r.outcome = "ok" THEN o.next ELSE next
          /\ pcall' = PCall("reset", tok, r.outcome, r.outcome = "ok", 0)
    /\ credit' = NoCredit
    /\ UNCHANGED <<bound, pool>>
    /\ UNCHANGED <<memVars, chainVars>>

\* FrameBound<FramePool>::reserve
Reserve(count) ==
    /\ bound
    /\ next + count <= MaxBuffers
    /\ LET r == OwningPool_reserve(buffers, next, count)
       IN /\ buffers' = r.buffers
          /\ next' = r.next
          /\ pcall' = PCall("reserve", count, "ok", FALSE, r.allocated)
    /\ credit' = [n |-> count, left |-> count]
    /\ UNCHANGED <<frame, bound, pool>>
    /\ UNCHANGED <<memVars, chainVars>>

\* FramePool::cast_capability::<C>() consumes the pool and hands back
\* Ok(retyped pool) or Err(the pool); it is only defined on a pool whose
\* capability is still the run-time flags.
Cast(c) ==
    /\ ~bound
    /\ pool.capability.level = 0
    /\ LET r == FramePool_cast_capability(ThisFramePool, c)
       IN /\ pool' = r.pool.inner.inner
          /\ buffers' = r.pool.inner.buffers
          /\ next' = r.pool.inner.next
          /\ frame' = r.pool.frame
          /\ pcall' = PCall("cast_capability", c, IF r.ok THEN "ok" ELSE "err", FALSE, 0)
    /\ credit' = NoCredit
    /\ UNCHANGED bound
    /\ UNCHANGED <<memVars, chainVars>>

\* ======================================================================
\* Specifications
\* ======================================================================
InitAlloc ==
    /\ alive = TRUE
    /\ used = DedicatedAllocator_new
    /\ blocks = << >>
    /\ devMaps = [h \in Handles |-> 0]
    /\ mcall = MCall("new", 0, <<>>, "ok", <<>>, <<>>)
    /\ watch = NoWatch

\* One block made by DedicatedBlock::from_memory, no allocator.
InitBlock ==
    /\ alive = FALSE
    /\ used = 0
    /\ \E size \in Sizes : blocks = [h \in {1} |-> from_memory(size)]
    /\ devMaps = [h \in Handles |-> 0]
    /\ mcall = MCall("from_memory", 1, <<>>, "ok", <<>>, <<>>)
    /\ watch = NoWatch

\* A FramePool over a fresh native pool whose run-time flags are fl.
InitPoolWith(fl) ==
    /\ frame = None
    /\ buffers = <<>>
    /\ next = 0
    /\ bound = FALSE
    /\ pcall = PCall("new", 0, "ok", FALSE, 0)
    /\ pool = [inner |-> 1, capability |-> Flags(fl), reset |-> "()", family |-> 1,
               relevant |-> TRUE]
    /\ credit = NoCredit

InitPool == InitPoolWith(CapFlags)

NextAlloc ==
    \/ New
    \/ \E size \in Sizes, align \in Aligns, devOk \in BOOLEAN, follow \in BOOLEAN :
           Alloc(size, align, devOk, follow)
    \/ \E h \in Handles : Free(h)
    \/ \E h \in Handles, devOk \in BOOLEAN : h \in Live /\ Map(h, 0, blocks[h].size, devOk)
    \/ \E h \in Handles : Unmap(h)
    \/ Drop

NextBlock ==
    \/ \E start \in Offsets, end \in Offsets, devOk \in BOOLEAN : Map(1, start, end, devOk)
    \/ Unmap(1)

NextPool ==
    \/ \E f \in Frames : Bind(f)
    \/ Acquire
    \/ Release
    \/ \E tok \in Frames : Reset(tok)
    \/ \E count \in 0..MaxBuffers : Reserve(count)
    \/ \E c \in Levels : Cast(c)

\* Chain::new
InitChain ==
    /\ links = Chain_new
    /\ ccall = CCall("new", 0, None, 0)

NextChain ==
    \/ ChainNew
    \/ \E u \in Usages : AddLink(u)
    \/ LastLinkMut
    \/ \E u \in Usages : MergeLast(u)
    \/ Usage

Init == InitAlloc /\ InitPool /\ InitChain
InitOneBlock == InitBlock /\ InitPool /\ InitChain
InitFramePool == InitAlloc /\ InitChain /\ \E fl \in SUBSET CapFlags : InitPoolWith(fl)

SpecAlloc == Init /\ [][NextAlloc]_vars
SpecBlock == InitOneBlock /\ [][NextBlock]_vars
SpecPool == InitFramePool /\ [][NextPool]_vars
SpecChain == Init /\ [][NextChain]_vars

\* ======================================================================
\* Properties
\* ======================================================================
\* The block a map/unmap/free call of the step acts on, before the call.
MappingOf(bs, h) == bs[h].mapping

\* range [start, end) lies inside the recorded mapping mp (a valid range:
\* start <= end).
Contained(mp, start, end) ==
    /\ mp # None
    /\ start <= end
    /\ Unwrap(mp).start <= start
    /\ end <= Unwrap(mp).end

MapStep == mcall'.op = "map" /\ mcall'.h \in DOMAIN blocks

\* ---- C1 ----
\* C1: whenever Block.map returns a MappingError, the block's recorded
\* mapping after the call (present or absent, and its range) is the one it
\* had before the call.
C1_FailedMapKeepsMapping ==
    [][ (MapStep /\ mcall'.outcome = "MappingError")
            => MappingOf(blocks', mcall'.h) = MappingOf(blocks, mcall'.h) ]_vars

\* ---- C9 ----
\* C9: a map of a range contained in the recorded mapping issues no device
\* map and no device unmap call, succeeds, and leaves the recorded mapping
\* as it was.
C9_ContainedMapIssuesNoDeviceCall ==
    [][ (MapStep /\ Contained(MappingOf(blocks, mcall'.h), mcall'.arg[1], mcall'.arg[2]))
            => /\ mcall'.calls = <<>>
               /\ mcall'.outcome = "ok"
               /\ <<mcall'.ret[2], mcall'.ret[3]>> = mcall'.arg
               /\ blocks' = blocks
               /\ devMaps' = devMaps ]_vars

\* A map of a strictly smaller range has just been served from the mapping.
C9_Witness ==
    /\ mcall.op = "map" /\ mcall.outcome = "ok" /\ mcall.calls = <<>>
    /\ mcall.h \in DOMAIN blocks
    /\ blocks[mcall.h].mapping # None
    /\ mcall.arg # <<Unwrap(blocks[mcall.h].mapping).start, Unwrap(blocks[mcall.h].mapping).end>>

\* ---- C10 ----
\* C10: a map of a valid range not contained in the recorded mapping issues
\* one device unmap first if and only if a mapping was active, then exactly
\* one device map over exactly the requested range; on success that range
\* is the recorded mapping.
C10_RemapUnmapsThenMapsExactRange ==
    [][ (/\ MapStep
         /\ mcall'.arg[1] <= mcall'.arg[2]
         /\ ~Contained(MappingOf(blocks, mcall'.h), mcall'.arg[1], mcall'.arg[2]))
            => /\ mcall'.calls =
                     (IF MappingOf(blocks, mcall'.h) # None
                         THEN << <<"unmap", mcall'.h>> >> ELSE <<>>)
                     \o << <<"map", mcall'.h, mcall'.arg[1], mcall'.arg[2]>> >>
               /\ mcall'.outcome \in {"ok", "MappingError"}
               /\ mcall'.outcome = "ok" =>
                     /\ MappingOf(blocks', mcall'.h) # None
                     /\ LET mp == Unwrap(MappingOf(blocks', mcall'.h))
                        IN <<mp.start, mp.end>> = mcall'.arg ]_vars

\* A mapped block has just been remapped: unmap, then map, then recorded.
C10_Witness ==
    /\ mcall.op = "map" /\ mcall.outcome = "ok"
    /\ Len(mcall.calls) = 2
    /\ mcall.calls[1][1] = "unmap" /\ mcall.calls[2][1] = "map"
    /\ blocks[mcall.h].mapping # None

\* ---- C6 ----
\* C6 as stated: used right after free(b) equals used right before the
\* alloc that produced b, whatever happened in between.
C6_FreeRestoresUsedOfAlloc ==
    (watch.state = "freed" /\ mcall.op = "free") => used = watch.usedBefore

\* C6 amended: used right after free(b) equals used right before the alloc
\* that produced b plus the sizes of the other blocks allocated in between
\* minus the sizes of the other blocks freed in between; the two values are
\* equal when those cancel.
C6_FreeRestoresUsedUpToOthers ==
    (watch.state = "freed" /\ mcall.op = "free") =>
        /\ used = watch.usedBefore + watch.net
        /\ watch.net = 0 => used = watch.usedBefore

\* A non-empty block has just been freed while another block is live, and
\* the counter is back at its value before the alloc.
C6_Witness ==
    /\ watch.state = "freed" /\ mcall.op = "free"
    /\ mcall.ret[1] > 0
    /\ watch.net = 0
    /\ DOMAIN blocks # {}
    /\ used = watch.usedBefore

\* ---- C7 ----
\* C7: an alloc refused by the device (MemoryError) leaves used at the value
\* it had before the call and produces no block.
C7_FailedAllocLeavesUsed ==
    [][ (mcall'.op = "alloc" /\ mcall'.outcome = "MemoryError")
            => /\ used' = used
               /\ blocks' = blocks
               /\ mcall'.ret = <<>> ]_vars

\* A refused alloc of a non-zero size on an allocator that has blocks out.
C7_Witness ==
    /\ mcall.op = "alloc" /\ mcall.outcome = "MemoryError"
    /\ mcall.arg[1] > 0
    /\ used > 0

\* ---- C8 ----
\* C8: dropping the allocator panics exactly when used != 0, which is
\* exactly when a block of non-zero size it allocated has not been freed.
C8_DropPanicsIffLeak ==
    mcall.op = "drop" =>
        /\ mcall.outcome = "panic" <=> used # 0
        /\ mcall.outcome = "ok" <=> used = 0
        /\ used # 0 <=> \E h \in DOMAIN blocks : blocks[h].size > 0

\* The allocator has just been dropped with a non-empty block outstanding.
C8_Witness ==
    /\ mcall.op = "drop" /\ mcall.outcome = "panic"
    /\ \E h \in DOMAIN blocks : blocks[h].size > 0

C3_BindWhileBoundPanicsAndKeepsBinding ==
    [][ /\ (pcall'.op = "bind" /\ frame # None)
            => /\ pcall'.outcome = "panic"
               /\ frame' = frame
               /\ buffers' = buffers /\ next' = next
        /\ (/\ pcall.op = "bind" /\ pcall.outcome = "panic"
            /\ pcall'.op = "reset" /\ frame = Some(pcall'.arg))
            => pcall'.outcome = "ok" ]_vars

\* A bind to another index has just been refused; the pool is still bound.
C3_Witness ==
    /\ pcall.op = "bind" /\ pcall.outcome = "panic"
    /\ frame # None /\ frame # Some(pcall.arg)
    /\ next > 0

\* ---- C4 ----
\* C4: reset is accepted only when the pool is bound to the token's index;
\* otherwise it panics and the OwningPool reset is not performed.
C4_ResetAcceptedOnlyForBoundFrame ==
    [][ pcall'.op = "reset"
            => /\ pcall'.outcome = "ok" => frame = Some(pcall'.arg)
               /\ frame # Some(pcall'.arg)
                     => /\ pcall'.outcome = "panic"
                        /\ ~pcall'.poolReset
                        /\ buffers' = buffers /\ next' = next ]_vars

\* A reset with a foreign token has just been refused and the buffers
\* acquired for the other frame are still in use.
C4_Witness ==
    /\ pcall.op = "reset" /\ pcall.outcome = "panic"
    /\ next > 0
    /\ \E i \in DOMAIN buffers :
          buffers[i].frame # None /\ buffers[i].frame # Some(pcall.arg)

C11_UnmapIdempotent ==
    [][ /\ (mcall'.op = "unmap" /\ mcall'.h \in DOMAIN blocks)
            => /\ MappingOf(blocks, mcall'.h) = None
                     => /\ mcall'.calls = <<>>
                        /\ blocks' = blocks /\ devMaps' = devMaps
               /\ MappingOf(blocks, mcall'.h) # None
                     => /\ mcall'.calls = << <<"unmap", mcall'.h>> >>
                        /\ MappingOf(blocks', mcall'.h) = None
                        /\ blocks'[mcall'.h].size = blocks[mcall'.h].size
        /\ (mcall.op = "unmap" /\ mcall'.op = "unmap" /\ mcall'.h = mcall.h)
            => /\ mcall'.calls = <<>>
               /\ blocks' = blocks /\ devMaps' = devMaps ]_vars

\* A mapped block has just been unmapped: one device unmap, nothing recorded.
C11_Witness ==
    /\ mcall.op = "unmap" /\ mcall.calls = << <<"unmap", mcall.h>> >>
    /\ mcall.h \in DOMAIN blocks
    /\ blocks[mcall.h].mapping = None
    /\ devMaps[mcall.h] = 0

\* ---- C12 ----
\* C12: free issues a device unmap exactly when the block is still mapped,
\* before the single device free of the block's handle; it decrements used
\* by the block's size and returns that size; freeing the only block of the
\* allocator leaves used at 0.
C12_FreeUnmapsThenFrees ==
    [][ (mcall'.op = "free" /\ mcall'.h \in DOMAIN blocks)
            => LET h == mcall'.h
                   b == blocks[h]
               IN /\ mcall'.calls =
                        (IF b.mapping # None THEN << <<"unmap", h>> >> ELSE <<>>)
                        \o << <<"free", h>> >>
                  /\ used' = used - b.size
                  /\ mcall'.ret = <<b.size>>
                  /\ h \notin DOMAIN blocks'
                  /\ DOMAIN blocks = {h} => used' = 0 ]_vars

\* A mapped block of non-zero size has just been freed: unmap, then free.
C12_Witness ==
    /\ mcall.op = "free"
    /\ Len(mcall.calls) = 2
    /\ mcall.calls[1][1] = "unmap" /\ mcall.calls[2][1] = "free"
    /\ mcall.ret[1] > 0
    /\ used = 0

\* ---- C18 ----
\* C18: the device holds at most one live mapping of a block's memory, and
\* exactly one when the block records a mapping, none otherwise.
C18_RecordedIffDeviceMapped ==
    \A h \in Handles :
        /\ devMaps[h] \in {0, 1}
        /\ devMaps[h] = IF h \in DOMAIN blocks /\ blocks[h].mapping # None THEN 1 ELSE 0

\* A mapped block has just been remapped over another range: the device
\* still holds exactly one mapping of its memory.
C18_Witness ==
    /\ mcall.op = "map" /\ mcall.outcome = "ok" /\ Len(mcall.calls) = 2
    /\ devMaps[mcall.h] = 1
    /\ blocks[mcall.h].mapping # None

\* ---- C20 ----
RECURSIVE SumSizes(_, _)
SumSizes(bs, hs) ==
    IF hs = {} THEN 0
    ELSE LET h == CHOOSE x \in hs : TRUE
         IN bs[h].size + SumSizes(bs, hs \ {h})

\* C20: used is the sum of the sizes of the blocks allocated and not yet
\* freed; a successful alloc returns exactly the requested size whatever
\* the alignment; the subtraction in free never underflows.
C20_UsedIsSumOfLiveSizes ==
    /\ alive => used = SumSizes(blocks, DOMAIN blocks)
    /\ used >= 0
    /\ mcall.outcome # "underflow"
    /\ (mcall.op = "alloc" /\ mcall.outcome = "ok")
          => /\ mcall.ret = <<mcall.arg[1]>>
             /\ blocks[mcall.h].size = mcall.arg[1]

\* An alloc of a size that is no multiple of the alignment has succeeded
\* while another non-empty block is live.
C20_Witness ==
    /\ mcall.op = "alloc" /\ mcall.outcome = "ok"
    /\ mcall.arg = <<1, 2>>
    /\ used > 1

\* ---- C19 ----
\* C19: a reset refused because the token's index differs from the bound
\* frame index leaves the pool bound to the frame it was bound to.
C19_RefusedResetKeepsBinding ==
    [][ (pcall'.op = "reset" /\ frame # None /\ frame # Some(pcall'.arg))
            => /\ pcall'.outcome = "panic"
               /\ frame' = frame ]_vars

\* ---- C13 ----
\* C13: cast_capability<C> fails exactly when C is not supported by the
\* pool's run-time flags, and the pool handed back then has the handle,
\* flags, reset policy, queue family and liveness marker of the original,
\* and the same buffers, ring cursor and bound frame.
C13_FailedCastReturnsOriginal ==
    [][ pcall'.op = "cast_capability"
            => /\ pcall'.outcome = "err"
                     <=> ~(Required(pcall'.arg) \subseteq pool.capability.flags)
               /\ pcall'.outcome = "err"
                     => /\ pool' = pool
                        /\ buffers' = buffers
                        /\ next' = next
                        /\ frame' = frame ]_vars

\* A cast has just been refused on a bound pool that has handed out buffers.
C13_Witness ==
    /\ pcall.op = "cast_capability" /\ pcall.outcome = "err"
    /\ pool.capability.level = 0 /\ pool.capability.flags # {}
    /\ next > 0 /\ Len(buffers) > 0
    /\ frame # None

HasBit(x, b) == (x \div (2^b)) % 2 = 1

\* The links of ls in the order given by the permutation p of its positions.
Reordered(ls, p) == [i \in 1..Len(ls) |-> ls[p[i]]]

\* C14: usage() has exactly the bits that some link of the chain has: it is
\* no_usage for the empty chain, and it is the same for the same links in
\* any other order and with any link repeated.
C14_UsageIsOrOfLinks ==
    ccall.op = "usage" =>
        /\ ccall.usage \in Usages
        /\ \A b \in 0..(UsageBits - 1) :
              HasBit(ccall.usage, b) <=> \E i \in DOMAIN links : HasBit(links[i].usage, b)
        /\ links = <<>> => ccall.usage = no_usage
        /\ \A p \in Permutations(1..Len(links)) :
              Chain_usage(Reordered(links, p)) = ccall.usage
        /\ \A i \in DOMAIN links : Chain_usage(Append(links, links[i])) = ccall.usage

\* usage() has just been taken of a chain of three links with a repeated
\* usage and two different ones, and has the bits of both.
C14_Witness ==
    /\ ccall.op = "usage"
    /\ Len(links) = 3
    /\ links[1].usage = 1 /\ links[2].usage = 1 /\ links[3].usage = 2
    /\ ccall.usage = 3

\* ---- C15 ----
\* C15: add_link(l) makes links the previous links followed by l and
\* returns a handle to l, the new tail; last_link_mut returns the tail, or
\* nothing for an empty chain; no call on a chain removes a link or moves
\* one to another position.
C15_ChainAppendOnly ==
    [][ /\ ccall'.op = "add_link"
            => /\ links' = Append(links, [usage |-> ccall'.arg])
               /\ ccall'.handle = Some(Len(links) + 1)
               /\ links'[Unwrap(ccall'.handle)] = [usage |-> ccall'.arg]
        /\ ccall'.op = "last_link_mut"
            => /\ links' = links
               /\ ccall'.handle = IF links = <<>> THEN None ELSE Some(Len(links))
        /\ ccall'.op # "new"
            => /\ Len(links') >= Len(links)
               /\ \A i \in 1..(Len(links) - 1) : links'[i] = links[i] ]_vars

\* A third link, different from the first, has just been added at the tail.
C15_Witness ==
    /\ ccall.op = "add_link"
    /\ Len(links) = 3
    /\ ccall.handle = Some(3)
    /\ links[3].usage = ccall.arg
    /\ links[1].usage # links[3].usage

====
